---- MODULE Spec2Model ----
(***************************************************************************)
(* Model of dynamic_shop_placer_mod.py: the DynamicShopPlacer pipeline     *)
(* (attach base, build hierarchy, vary entries, place each entity) acting  *)
(* on a USD scene graph.                                                   *)
(*                                                                         *)
(* The scene graph is the composed stage as the code reads it through the  *)
(* USD API: which prims exist and their type, the reference list of        *)
(* /World/Shelf, and per prim the xformOpOrder token list and the payload  *)
(* list.  Paths are kept relative to /World/Shelf: <<>> is the anchor,     *)
(* <<shelf>> and <<shelf, category>> are group prims and                   *)
(* <<shelf, category, product_id>> is a product prim.                      *)
(***************************************************************************)
EXTENDS Integers, Sequences, FiniteSets, TLC

VARIABLES
    \* module-level flags and data of the script
    use_current_scene,          \* line 29
    APPLY_SHELF_WORLD_XFORM,    \* line 32
    SHELF_WORLD_XFORM_MODE,     \* line 41
    PRODUCT_DATA,               \* line 61: product_id -> record (a dict)
    \* the environment: the base fixture file on disk
    fixture,                    \* what "Shop Minimal Empty.usda" defines
    canOpen,                    \* whether open_stage can open it
    \* the scene graph
    stage,                      \* TRUE iff get_stage() yields a stage
    primType,                   \* path -> type name, NoPrim when absent
    references,                 \* reference list authored on the anchor
    xformOpOrder,               \* path -> sequence of op tokens
    payloads,                   \* path -> sequence of payload assets
    \* one run of setup_scene_sync
    pc,                         \* position of the run
    ret,                        \* what each stage of this run returned
    result,                     \* what setup_scene_sync returned
    num_products,               \* argument of randomize_product_rotations
    randomized,                 \* randomized_product_data of this run
    remaining,                  \* entries the placement loop has not reached
    outcome,                    \* product_id -> "pending" | "ok" | "raised"
    success_count,              \* line 242
    reported,                   \* <<success_count, total>> printed at line 251
    \* bookkeeping over runs
    runs,                       \* completed runs, counted up to MaxRunsCounted
    once,                       \* Structure of the scene the first run left
    atStart                     \* Structure of the scene the current run found

configVars == <<use_current_scene, APPLY_SHELF_WORLD_XFORM,
                SHELF_WORLD_XFORM_MODE, PRODUCT_DATA, fixture, canOpen>>
flagVars == <<use_current_scene, APPLY_SHELF_WORLD_XFORM,
              SHELF_WORLD_XFORM_MODE, fixture, canOpen>>
sceneVars == <<stage, primType, references, xformOpOrder, payloads>>
runVars == <<pc, ret, result, num_products, randomized, remaining,
                outcome, success_count, reported>>
histVars == <<runs, once, atStart>>
vars == <<configVars, sceneVars, runVars, histVars>>

----------------------------------------------------------------------------
(* Bounds of the model *)

NumIds == 4             \* product identifiers available to a catalog
MaxStaleRefs == 2       \* references the anchor may hold before the first run
MaxRunsCounted == 1     \* the run counter stops counting here (runs go on)
MaxCount == 5           \* largest num_products tried on the variation alone

(* Program constants *)

VariationCount == 3     \* place_all_products passes 3 (line 241)

----------------------------------------------------------------------------
(* Names *)

IdNames == <<"p1", "p2", "p3", "p4", "p5", "p6", "p7", "p8">>
Ids == {IdNames[i] : i \in 1..NumIds}

DefaultShelf == "Items_Lower"       \* line 170, 186
DefaultCategory == "Unknown"        \* line 171, 187
ShelfNames == {"Items_Lower", "Items_Upper"}
CategoryNames == {"Unknown", "Snacks"}

Anchor == <<>>                      \* /World/Shelf

\* where the i-th identifier is shelved: keys left out take the defaults
Shelving(i) ==
    CASE i = 2 -> [shelf |-> "Items_Upper"]
      [] i \in {3, 4} -> [shelf |-> "Items_Upper", category |-> "Snacks"]
      [] OTHER -> [x \in {} |-> ""]

\* dict.get(key, default)
Get(d, key, default) == IF key \in DOMAIN d THEN d[key] ELSE default

\* lines 170-171, 186-187
ShelfOf(product_data) == Get(product_data, "shelf", DefaultShelf)
CategoryOf(product_data) == Get(product_data, "category", DefaultCategory)

\* line 189
ProductPathShared(product_id, product_data) ==
    <<ShelfOf(product_data), CategoryOf(product_data), "p1">>
ProductPath(product_id, product_data) ==
    <<ShelfOf(product_data), CategoryOf(product_data), product_id>>

GroupPaths ==
    {<<s>> : s \in ShelfNames} \cup {<<s, c>> : s \in ShelfNames, c \in CategoryNames}
ProductPaths == {ProductPath(IdNames[i], Shelving(i)) : i \in 1..NumIds}
AllPaths == {Anchor} \cup GroupPaths \cup ProductPaths

NoPrim == "none"                    \* no prim at the path
Typeless == ""                      \* a defined prim without a type name

OpTranslate == "xformOp:translate"
OpScale == "xformOp:scale"
OpRotateZYX == "xformOp:rotateZYX"
OpOrient == "xformOp:orient"
ResetXformStackToken == "!resetXformStack!"
NoOp == "no-op"

BaseRef == "Shop Minimal Empty.usda:/World/Shelf"   \* lines 67, 126, 137
StaleRefs == <<"old_shop_a.usda:/World/Shelf", "old_shop_b.usda:/World/Shelf",
               "old_shop_c.usda:/World/Shelf", "old_shop_d.usda:/World/Shelf">>

Range(s) == {s[i] : i \in 1..Len(s)}
Min(a, b) == IF a < b THEN a ELSE b
IsPrefix(p, q) == Len(p) < Len(q) /\ SubSeq(q, 1, Len(p)) = p

----------------------------------------------------------------------------
(* Catalog entries: Python dicts, modelled as functions whose domain is    *)
(* the set of keys present.  Values are abstract: "vec3" a well-formed     *)
(* 3-vector, "quat" a well-formed 4-tuple, "bad" a value the Gf            *)
(* constructors reject, "rnd" a vector sampled by the variation pass.      *)

Kinds == <<"Plain", "Rot", "Ori", "Both", "NoAsset", "NoTranslate",
           "NoScale", "BadRot", "BadOri", "BothBadOri">>

Fields(kind) ==
    LET req == [asset |-> "product.usd", translate |-> "vec3", scale |-> "vec3"]
    IN CASE kind = "Plain" -> req
         [] kind = "Rot" -> req @@ [rotate |-> "vec3"]
         [] kind = "Ori" -> req @@ [orient |-> "quat"]
         [] kind = "Both" -> req @@ [rotate |-> "vec3", orient |-> "quat"]
         [] kind = "NoAsset" -> [translate |-> "vec3", scale |-> "vec3", rotate |-> "vec3"]
         [] kind = "NoTranslate" -> [asset |-> "product.usd", scale |-> "vec3"]
         [] kind = "NoScale" -> [asset |-> "product.usd", translate |-> "vec3", orient |-> "quat"]
         [] kind = "BadRot" -> req @@ [rotate |-> "bad"]
         [] kind = "BadOri" -> req @@ [orient |-> "bad"]
         [] kind = "BothBadOri" -> req @@ [rotate |-> "vec3", orient |-> "bad"]

Entry(kind, i) == Shelving(i) @@ Fields(kind)

\* the catalog of n entries whose kinds are Kinds[k], Kinds[k+1], ... (cyclically)
Catalog(k, n) ==
    [pid \in {IdNames[i] : i \in 1..n} |->
        LET i == CHOOSE j \in 1..n : IdNames[j] = pid
        IN Entry(Kinds[((k + i - 2) % Len(Kinds)) + 1], i)]

Catalogs == {Catalog(k, n) : k \in 1..Len(Kinds), n \in 0..NumIds}

----------------------------------------------------------------------------
(* The scene-graph API the code calls (pxr.Usd, pxr.UsdGeom), by what each *)
(* call does to the composed stage.                                        *)


\* str.lower() on the mode strings the flag may hold
Lower(s) ==
    CASE s = "Override" -> "override"
      [] s = "OVERRIDE" -> "override"
      [] s = "Additive" -> "additive"
      [] OTHER -> s

\* prim and prim.IsValid()
IsValidPrim(types, path) == types[path] # NoPrim

\* Usd.Stage.DefinePrim(path, typeName), also behind Xform.Define and
\* Scope.Define: a prim that is defined and has the wanted type (or no type is
\* wanted) is returned as it is; otherwise the type is authored.  Missing
\* ancestors are defined without a type.
DefinePrimNoOp(types, path, typeName) == types
DefinePrim(types, path, typeName) ==
    [p \in AllPaths |->
        IF p = path
        THEN IF types[p] = NoPrim \/ (typeName # Typeless /\ types[p] # typeName)
             THEN typeName
             ELSE types[p]
        ELSE IF IsPrefix(p, path) /\ types[p] = NoPrim THEN Typeless
        ELSE types[p]]

RemoveItem(list, item) == SelectSeq(list, LAMBDA x : x # item)

\* the list edit behind GetReferences().AddReference and
\* GetPayloads().AddPayload: an item already listed is moved to the back, never
\* listed twice
AddListItem(list, item) ==
    IF item \in Range(list)
    THEN IF list[Len(list)] = item THEN list ELSE Append(RemoveItem(list, item), item)
    ELSE Append(list, item)

\* GetReferences().ClearReferences()
ClearReferencesKeep(refs) == refs
ClearReferences(refs) == <<>>

\* UsdGeom.Xformable.ClearXformOpOrder(): sets xformOpOrder to the empty list
ClearXformOpOrderKeep(order) == order
ClearXformOpOrder(order) == <<>>

\* UsdGeom.Xformable.SetXformOpOrder(ops), resetXformStack left at its default
\* False: xformOpOrder becomes exactly the ops given
SetXformOpOrder(ops) == ops

\* UsdGeom.Xformable.AddTranslateOp / AddScaleOp / AddRotateZYXOp / AddOrientOp:
\* an op already in xformOpOrder is a coding error (raised in Python), otherwise
\* the op is appended to xformOpOrder
AddXformOp(order, op) ==
    IF op \in Range(order)
    THEN [ok |-> FALSE, order |-> order]
    ELSE [ok |-> TRUE, order |-> Append(order, op)]

\* UsdGeom.Xformable.GetResetXformStack(): the flag is the token in xformOpOrder
GetResetXformStack(order) == ResetXformStackToken \in Range(order)

\* UsdGeom.Xformable.SetResetXformStack(flag): True puts the token first unless
\* it is there; False drops everything up to and including the last token
LastReset(order) ==
    CHOOSE i \in 1..Len(order) :
        /\ order[i] = ResetXformStackToken
        /\ \A j \in (i + 1)..Len(order) : order[j] # ResetXformStackToken
SetResetXformStack(order, flag) ==
    IF flag
    THEN IF GetResetXformStack(order) THEN order ELSE <<ResetXformStackToken>> \o order
    ELSE IF GetResetXformStack(order)
         THEN SubSeq(order, LastReset(order) + 1, Len(order))
         ELSE order

\* Gf.Vec3d(*v), Gf.Vec3f(*v): accepted values
IsVec3(v) == v \in {"vec3", "rnd"}
\* Gf.Quatf(q[0], Gf.Vec3f(q[1], q[2], q[3]))
IsQuat(v) == v = "quat"

----------------------------------------------------------------------------
(* The base fixture file.  "noShelf": it defines no /World/Shelf;          *)
(* "bareShelf": /World/Shelf with its own transform; "shelfWithLevels":    *)
(* also an Xform child per shelf level.                                    *)

FixtureKinds == {"noShelf", "bareShelf", "shelfWithLevels"}

FixtureTypes(f) ==
    [p \in AllPaths |->
        IF f = "noShelf" THEN NoPrim
        ELSE IF p = Anchor THEN "Xform"
        ELSE IF f = "shelfWithLevels" /\ Len(p) = 1 THEN "Xform"
        ELSE NoPrim]

FixtureOrder(f) ==
    [p \in AllPaths |->
        IF f # "noShelf" /\ p = Anchor THEN <<OpTranslate, "xformOp:rotateXYZ">> ELSE <<>>]

NoPayloads == [p \in AllPaths |-> <<>>]
NoOrders == [p \in AllPaths |-> <<>>]
NoPrims == [p \in AllPaths |-> NoPrim]

----------------------------------------------------------------------------
(* DynamicShopPlacer *)

\* lines 82-104: the ops authored on /World/Shelf once the prim is found
ShelfWorldXformOrder(order, mode) ==
    LET o1 == SetResetXformStack(order, Lower(mode) = "override")   \* 85-90
        o2 == ClearXformOpOrder(o1)                                  \* 93
        a1 == AddXformOp(o2, OpTranslate)                            \* 98
        a2 == AddXformOp(a1.order, OpRotateZYX)                      \* 101
    IN IF a1.ok /\ a2.ok
       THEN [ok |-> TRUE, order |-> SetXformOpOrder(<<OpTranslate, OpRotateZYX>>)]
       ELSE [ok |-> FALSE, order |-> a2.order]

\* apply_shelf_world_transform_if_enabled (73-110): what it returns and the
\* xformOpOrder of every prim after it
apply_shelf_world_transform_if_enabled(types, orders) ==
    IF ~APPLY_SHELF_WORLD_XFORM THEN [ok |-> TRUE, xformOpOrder |-> orders]
    ELSE IF ~IsValidPrim(types, Anchor) THEN [ok |-> FALSE, xformOpOrder |-> orders]
    ELSE LET x == ShelfWorldXformOrder(orders[Anchor], SHELF_WORLD_XFORM_MODE)
         IN [ok |-> x.ok, xformOpOrder |-> [orders EXCEPT ![Anchor] = x.order]]

\* lines 133-138: the reference list of the anchor after the attach
AttachReferences(refs) == AddListItem(ClearReferences(refs), BaseRef)

\* what the reference to the fixture's /World/Shelf composes onto the stage:
\* the fixture's prims appear where the stage has none; a prim the stage
\* defines keeps its own type
ComposeFixture(types) ==
    [p \in AllPaths |-> IF types[p] = NoPrim /\ p # Anchor THEN FixtureTypes(fixture)[p] ELSE types[p]]

\* setup_scene_sync (258-271): where the run goes after a stage returned
AfterAttachAlways(ok) == "hierarchy"
AfterAttach(ok) == IF ok THEN "hierarchy" ELSE "failed"
AfterHierarchyAlways(ok) == "vary"
AfterHierarchy(ok) == IF ok THEN "vary" ELSE "failed"

Str(b) == IF b THEN "True" ELSE "False"

\* add_shelf_to_existing_stage (115-143), called at line 260
AddShelfToExistingStage ==
    /\ pc = "start"
    /\ use_current_scene
    /\ IF ~stage
       THEN /\ ret' = [ret EXCEPT !.attach = "False"]
            /\ pc' = AfterAttach(FALSE)
            /\ UNCHANGED sceneVars
       ELSE LET created == ~IsValidPrim(primType, Anchor)
                types1 == IF created THEN DefinePrim(primType, Anchor, "Xform") ELSE primType
                orders1 == IF created
                           THEN [xformOpOrder EXCEPT ![Anchor] = FixtureOrder(fixture)[Anchor]]
                           ELSE xformOpOrder
                types2 == ComposeFixture(types1)
                xf == apply_shelf_world_transform_if_enabled(types2, orders1)
            IN /\ primType' = types2
               /\ references' = AttachReferences(references)
               /\ xformOpOrder' = xf.xformOpOrder
               /\ ret' = [ret EXCEPT !.attach = Str(xf.ok)]
               /\ pc' = AfterAttach(xf.ok)
               /\ UNCHANGED <<stage, payloads>>
    /\ result' = IF pc' = "failed" THEN "False" ELSE result
    /\ UNCHANGED <<configVars, histVars, num_products, randomized, remaining,
                   outcome, success_count, reported>>

\* load_empty_shop_sync (148-159), called at line 264
LoadEmptyShopSync ==
    /\ pc = "start"
    /\ ~use_current_scene
    /\ IF ~canOpen
       THEN /\ ret' = [ret EXCEPT !.attach = "False"]
            /\ pc' = AfterAttach(FALSE)
            /\ UNCHANGED sceneVars
       ELSE LET xf == apply_shelf_world_transform_if_enabled(FixtureTypes(fixture),
                                                             FixtureOrder(fixture))
            IN /\ stage' = TRUE
               /\ primType' = FixtureTypes(fixture)
               /\ references' = <<>>
               /\ payloads' = NoPayloads
               /\ xformOpOrder' = xf.xformOpOrder
               /\ ret' = [ret EXCEPT !.attach = Str(xf.ok)]
               /\ pc' = AfterAttach(xf.ok)
    /\ result' = IF pc' = "failed" THEN "False" ELSE result
    /\ UNCHANGED <<configVars, histVars, num_products, randomized, remaining,
                   outcome, success_count, reported>>


\* lines 168-172: shelf -> set of categories, as the set of pairs
shelf_categories(catalog) ==
    {<<ShelfOf(catalog[pid]), CategoryOf(catalog[pid])>> : pid \in DOMAIN catalog}

\* lines 174-179: Scope.Define on every shelf path and every category path
GroupPathsOfNoCategory(catalog) ==
    {<<sc[1]>> : sc \in shelf_categories(catalog)}
GroupPathsOf(catalog) ==
    {<<sc[1]>> : sc \in shelf_categories(catalog)}
    \cup {<<sc[1], sc[2]>> : sc \in shelf_categories(catalog)}

DefineScopes(types, paths) ==
    [p \in AllPaths |->
        IF p \in paths /\ types[p] # "Scope" THEN "Scope" ELSE types[p]]

\* create_product_hierarchy (162-182), called at line 267
CreateProductHierarchy ==
    /\ pc = "hierarchy"
    /\ IF ~IsValidPrim(primType, Anchor)
       THEN /\ ret' = [ret EXCEPT !.hierarchy = "False"]
            /\ pc' = AfterHierarchy(FALSE)
            /\ UNCHANGED primType
       ELSE /\ primType' = DefineScopes(primType, GroupPathsOf(PRODUCT_DATA))
            /\ ret' = [ret EXCEPT !.hierarchy = "True"]
            /\ pc' = AfterHierarchy(TRUE)
    /\ result' = IF pc' = "failed" THEN "False" ELSE result
    /\ UNCHANGED <<configVars, histVars, stage, references, xformOpOrder, payloads,
                   num_products, randomized, remaining, outcome, success_count,
                   reported>>


\* lines 202-209: the rotation op the entry asks for
RotationOpOrientFirst(product_data) ==
    IF "orient" \in DOMAIN product_data THEN OpOrient
    ELSE IF "rotate" \in DOMAIN product_data THEN OpRotateZYX
    ELSE NoOp
RotationOp(product_data) ==
    IF "rotate" \in DOMAIN product_data THEN OpRotateZYX
    ELSE IF "orient" \in DOMAIN product_data THEN OpOrient
    ELSE NoOp

\* lines 205, 208-209: whether setting the rotation value raises
RotationValueOk(product_data) ==
    IF "rotate" \in DOMAIN product_data THEN IsVec3(product_data["rotate"])
    ELSE IsQuat(product_data["orient"])

\* lines 211-214: the op order set at the end of place_product
FinalOrderRotationLast(rot) ==
    IF rot # NoOp THEN <<OpTranslate, OpScale, rot>> ELSE <<OpTranslate, OpScale>>
FinalOrder(rot) ==
    IF rot # NoOp THEN <<OpTranslate, rot, OpScale>> ELSE <<OpTranslate, OpScale>>

\* lines 193-214: the xformOpOrder of the product prim and whether an
\* exception left the method, from the prim's xformOpOrder before
AuthorXform(product_data, order) ==
    LET o0 == ClearXformOpOrder(order)                               \* 194
        a1 == AddXformOp(o0, OpTranslate)                            \* 196
    IN IF ~a1.ok \/ "translate" \notin DOMAIN product_data
          \/ ~IsVec3(product_data["translate"])                      \* 197
       THEN [raised |-> TRUE, order |-> a1.order]
       ELSE LET a2 == AddXformOp(a1.order, OpScale)                  \* 199
            IN IF ~a2.ok \/ "scale" \notin DOMAIN product_data
                  \/ ~IsVec3(product_data["scale"])                  \* 200
               THEN [raised |-> TRUE, order |-> a2.order]
               ELSE LET rot == RotationOp(product_data)
                    IN IF rot = NoOp
                       THEN [raised |-> FALSE, order |-> SetXformOpOrder(FinalOrder(rot))]
                       ELSE LET a3 == AddXformOp(a2.order, rot)      \* 204, 207
                            IN IF ~a3.ok \/ ~RotationValueOk(product_data)
                               THEN [raised |-> TRUE, order |-> a3.order]
                               ELSE [raised |-> FALSE,
                                     order |-> SetXformOpOrder(FinalOrder(rot))]

\* place_product (185-217) on the scene (types, pls, orders): the scene after
\* it and whether it raised
place_product(product_id, product_data, types, pls, orders) ==
    LET product_path == ProductPath(product_id, product_data)
        types1 == DefinePrim(types, product_path, Typeless)          \* 190
    IN IF "asset" \notin DOMAIN product_data                         \* 191
       THEN [raised |-> TRUE, primType |-> types1, payloads |-> pls,
             xformOpOrder |-> orders]
       ELSE LET x == AuthorXform(product_data, orders[product_path])
            IN [raised |-> x.raised,
                primType |-> types1,
                payloads |-> [pls EXCEPT ![product_path] =
                                 AddListItem(@, product_data["asset"])],
                xformOpOrder |-> [orders EXCEPT ![product_path] = x.order]]

\* line 223: random.sample(product_ids, min(num_products, len(product_ids)))
SampleAtMost(product_ids, n) ==
    {sel \in SUBSET product_ids : Cardinality(sel) <= Min(n, Cardinality(product_ids))}
Sample(product_ids, n) ==
    {sel \in SUBSET product_ids : Cardinality(sel) = Min(n, Cardinality(product_ids))}

\* lines 226-234: the copy of one selected entry
VaryEntryDropCategory(pd) ==
    [k \in (DOMAIN pd \cup {"rotate"}) \ {"orient", "category"} |->
        IF k = "rotate" THEN "rnd" ELSE pd[k]]
VaryEntry(pd) ==
    [k \in (DOMAIN pd \cup {"rotate"}) \ {"orient"} |->
        IF k = "rotate" THEN "rnd" ELSE pd[k]]

----------------------------------------------------------------------------
(* The Python objects of the variation pass.  A dict of records holds      *)
(* references to record objects, so two dicts may share a record and a     *)
(* write through one is seen through the other.  An object store has the   *)
(* dict objects (name -> product_id -> reference) and the record objects   *)
(* (reference -> record).                                                  *)

InputDict == "product_data_dict"        \* the dict passed in
CopiedDict == "randomized_data"         \* the dict made at line 221
RecordRef(pid) == <<"record", pid>>     \* the record the input holds for pid
CopyRef(ref) == <<"copy", ref[2]>>      \* the record made at line 226

\* the objects at the call: the dict passed in and the records it holds
Objects(product_data_dict) ==
    [dicts |-> [d \in {InputDict} |->
                   [pid \in DOMAIN product_data_dict |-> RecordRef(pid)]],
     records |-> [r \in {RecordRef(pid) : pid \in DOMAIN product_data_dict} |->
                   product_data_dict[r[2]]]]

\* what is read through dict d
Deref(h, d) == [pid \in DOMAIN h.dicts[d] |-> h.records[h.dicts[d][pid]]]

\* line 221, dict.copy() of the mapping: a new dict object holding the same
\* references
DictCopyAlias(h, d) == [ref |-> d, objects |-> h]
DictCopy(h, d) ==
    [ref |-> CopiedDict,
     objects |-> [h EXCEPT !.dicts = (CopiedDict :> h.dicts[d]) @@ @]]

\* line 226, dict.copy() of one record: a new record object with the same items
RecordCopyAlias(h, r) == [ref |-> r, objects |-> h]
RecordCopy(h, r) ==
    [ref |-> CopyRef(r),
     objects |-> [h EXCEPT !.records = (CopyRef(r) :> h.records[r]) @@ @]]

\* lines 226-234, one iteration of the loop over the selected entries: c is
\* the copy made at line 226, which lines 232-233 write (pd["rotate"] = ...,
\* pd.pop("orient", None)) and line 234 stores (randomized_data[pid] = pd)
VaryOne(h, d, pid) ==
    CHOOSE after \in
        {[c.objects EXCEPT !.records[c.ref] = VaryEntry(@), !.dicts[d][pid] = c.ref] :
            c \in {RecordCopy(h, h.dicts[d][pid])}} : TRUE

\* line 225: the loop
RECURSIVE VaryAll(_, _, _)
VaryAll(h, d, selected) ==
    IF selected = {} THEN h
    ELSE LET pid == CHOOSE p \in selected : TRUE
         IN CHOOSE after \in
                {VaryAll(next, d, selected \ {pid}) : next \in {VaryOne(h, d, pid)}} : TRUE

\* randomize_product_rotations (220-237) for the sample drawn at line 223:
\* the mapping it returns and the mapping the caller passed in, as the caller
\* reads it after the call; c is the copy made at line 221 and v the objects
\* after the loop of lines 225-235, with the dict randomized_data names
randomize_product_rotations(product_data_dict, selected_products) ==
    CHOOSE returned \in
        {[randomized_data |-> Deref(v.objects, v.ref),
          product_data_dict |-> Deref(v.objects, InputDict)] :
            v \in {[ref |-> c.ref,
                    objects |-> VaryAll(c.objects, c.ref, selected_products)] :
                      c \in {DictCopy(Objects(product_data_dict), InputDict)}}} : TRUE

\* place_all_products, lines 241-242, called at line 270
PlaceAllProductsBegin ==
    /\ pc = "vary"
    /\ num_products' = VariationCount
    /\ \E sel \in Sample(DOMAIN PRODUCT_DATA, VariationCount) :
          \E r \in {randomize_product_rotations(PRODUCT_DATA, sel)} :
              /\ randomized' = r.randomized_data
              /\ PRODUCT_DATA' = r.product_data_dict
    /\ remaining' = DOMAIN PRODUCT_DATA
    /\ success_count' = 0
    /\ pc' = "place"
    /\ UNCHANGED <<flagVars, sceneVars, histVars, ret, result, outcome, reported>>

\* lines 244-249: what the loop still has to visit after one entry
RemainingAfterUncaught(rem, pid, raised) == IF raised THEN {} ELSE rem \ {pid}
RemainingAfterRetry(rem, pid, raised) == IF raised THEN rem ELSE rem \ {pid}
RemainingAfter(rem, pid, raised) == rem \ {pid}

\* lines 246-249: the tally after one entry
TallyAlways(count, raised) == count + 1
Tally(count, raised) == IF raised THEN count ELSE count + 1

\* place_all_products, one iteration of the loop at lines 244-249; the order
\* of the dict's keys is an input, so any remaining entry may come next
PlaceOne(pid) ==
    /\ pc = "place"
    /\ pid \in remaining
    /\ \E r \in {place_product(pid, randomized[pid], primType, payloads, xformOpOrder)} :
          /\ primType' = r.primType
          /\ payloads' = r.payloads
          /\ xformOpOrder' = r.xformOpOrder
          /\ outcome' = [outcome EXCEPT ![pid] = IF r.raised THEN "raised" ELSE "ok"]
          /\ success_count' = Tally(success_count, r.raised)
          /\ remaining' = RemainingAfter(remaining, pid, r.raised)
    /\ UNCHANGED <<configVars, histVars, stage, references, pc, ret, result,
                   num_products, randomized, reported>>

\* line 252
PlaceAllResult(count) == count > 0

\* place_all_products, lines 251-252, and setup_scene_sync, lines 270-274
PlaceAllProductsEnd ==
    /\ pc = "place"
    /\ remaining = {}
    /\ reported' = <<success_count, Cardinality(DOMAIN randomized)>>
    /\ ret' = [ret EXCEPT !.place = Str(PlaceAllResult(success_count))]
    /\ pc' = IF PlaceAllResult(success_count) THEN "done" ELSE "failed"
    /\ result' = Str(PlaceAllResult(success_count))
    /\ UNCHANGED <<configVars, sceneVars, histVars, num_products, randomized,
                   remaining, outcome, success_count>>

----------------------------------------------------------------------------
(* Runs *)

NotRun == [attach |-> "notrun", hierarchy |-> "notrun", place |-> "notrun"]
Scene == [stage |-> stage, primType |-> primType, references |-> references,
          xformOpOrder |-> xformOpOrder, payloads |-> payloads]
NoScene == [stage |-> FALSE, primType |-> NoPrims, references |-> <<>>,
            xformOpOrder |-> NoOrders, payloads |-> NoPayloads]

\* what the bookkeeping keeps of a scene: everything but the op order of the
\* product prims, which depends on the samples the runs drew
Structure(scene) ==
    [scene EXCEPT !.xformOpOrder =
        [p \in AllPaths |-> IF p \in ProductPaths THEN <<>> ELSE scene.xformOpOrder[p]]]

FreshRun ==
    /\ pc' = "start"
    /\ ret' = NotRun
    /\ result' = "running"
    /\ num_products' = 0
    /\ randomized' = [x \in {} |-> ""]
    /\ remaining' = {}
    /\ outcome' = [pid \in DOMAIN PRODUCT_DATA |-> "pending"]
    /\ success_count' = 0
    /\ reported' = <<0, 0>>

\* the script is executed again on the scene the last run left (lines 289-292)
Rerun ==
    /\ pc \in {"done", "failed"}
    /\ FreshRun
    /\ runs' = Min(runs + 1, MaxRunsCounted)
    /\ once' = IF runs = 0 THEN Structure(Scene) ELSE once
    /\ atStart' = Structure(Scene)
    /\ UNCHANGED <<configVars, sceneVars>>

----------------------------------------------------------------------------
(* Scenes the first run may find open in the GUI *)

StaleProduct == <<DefaultShelf, DefaultCategory, "p1">>

\* a scene an earlier session left: the anchor with k stale references and its
\* own ops, a group of a pair no catalog has, a product prim with ops and payload
StaleScene(k) ==
    [stage |-> TRUE,
     primType |-> [p \in AllPaths |->
                      IF p = Anchor THEN "Xform"
                      ELSE IF p = <<DefaultShelf>> THEN "Xform"
                      ELSE IF p = <<DefaultShelf, "Snacks">> THEN "Scope"
                      ELSE IF p = <<DefaultShelf, DefaultCategory>> THEN "Scope"
                      ELSE IF p = StaleProduct THEN Typeless
                      ELSE NoPrim],
     references |-> SubSeq(StaleRefs, 1, k),
     xformOpOrder |-> [p \in AllPaths |->
                      IF p = Anchor THEN <<ResetXformStackToken, OpScale, OpTranslate>>
                      ELSE IF p = StaleProduct THEN <<OpTranslate, OpOrient, OpScale>>
                      ELSE <<>>],
     payloads |-> [p \in AllPaths |->
                      IF p = StaleProduct THEN <<"old.usd">> ELSE <<>>]]

EmptyScene == [NoScene EXCEPT !.stage = TRUE]

StartScenes == {NoScene, EmptyScene} \cup {StaleScene(k) : k \in 0..MaxStaleRefs}

Modes == {"additive", "override", "OVERRIDE"}

\* the scene the first run finds and the fixture file: in attach-into-current
\* mode every start scene with a fixture that has a bare shelf, and the other
\* fixtures with the empty scene and the fullest stale scene; in open-new-scene
\* mode (the scene is replaced) the fullest stale scene with every fixture
StartPairs ==
    IF use_current_scene
    THEN {<<sc, "bareShelf">> : sc \in StartScenes}
         \cup {<<sc, f>> : sc \in {EmptyScene, StaleScene(MaxStaleRefs)}, f \in FixtureKinds}
    ELSE {<<StaleScene(MaxStaleRefs), f>> : f \in FixtureKinds}

InitConfig ==
    /\ use_current_scene \in BOOLEAN
    /\ APPLY_SHELF_WORLD_XFORM \in BOOLEAN
    /\ SHELF_WORLD_XFORM_MODE \in (IF APPLY_SHELF_WORLD_XFORM THEN Modes ELSE {"additive"})
    /\ canOpen \in (IF use_current_scene THEN {TRUE} ELSE BOOLEAN)

InitScene ==
    \E sf \in StartPairs :
        /\ fixture = sf[2]
        /\ ~canOpen => fixture = "noShelf"
        /\ stage = sf[1].stage
        /\ primType = sf[1].primType
        /\ references = sf[1].references
        /\ xformOpOrder = sf[1].xformOpOrder
        /\ payloads = sf[1].payloads

InitRun ==
    /\ pc = "start"
    /\ ret = NotRun
    /\ result = "running"
    /\ randomized = [x \in {} |-> ""]
    /\ remaining = {}
    /\ outcome = [pid \in DOMAIN PRODUCT_DATA |-> "pending"]
    /\ success_count = 0
    /\ reported = <<0, 0>>
    /\ runs = 0
    /\ once = NoScene
    /\ atStart = Structure(Scene)

Init ==
    /\ InitConfig
    /\ PRODUCT_DATA \in Catalogs
    /\ InitScene
    /\ InitRun
    /\ num_products = 0

Next ==
    \/ AddShelfToExistingStage
    \/ LoadEmptyShopSync
    \/ CreateProductHierarchy
    \/ PlaceAllProductsBegin
    \/ \E pid \in Ids : PlaceOne(pid)
    \/ PlaceAllProductsEnd
    \/ Rerun

Spec == Init /\ [][Next]_vars

----------------------------------------------------------------------------
(* One execution of the script: setup_scene_sync is called once (line 292) *)
(* and every call it makes returns, so a step that can be taken is taken.  *)

NextRun ==
    \/ AddShelfToExistingStage
    \/ LoadEmptyShopSync
    \/ CreateProductHierarchy
    \/ PlaceAllProductsBegin
    \/ \E pid \in Ids : PlaceOne(pid)
    \/ PlaceAllProductsEnd

SpecRun == Init /\ [][NextRun]_vars /\ WF_vars(NextRun)

----------------------------------------------------------------------------
(* The variation pass alone: randomize_product_rotations applied to a      *)
(* catalog with any count 0..MaxCount.                                     *)

InitVary ==
    /\ use_current_scene = TRUE
    /\ APPLY_SHELF_WORLD_XFORM = FALSE
    /\ SHELF_WORLD_XFORM_MODE = "additive"
    /\ fixture = "bareShelf"
    /\ canOpen = TRUE
    /\ PRODUCT_DATA \in Catalogs
    /\ stage = NoScene.stage
    /\ primType = NoScene.primType
    /\ references = NoScene.references
    /\ xformOpOrder = NoScene.xformOpOrder
    /\ payloads = NoScene.payloads
    /\ InitRun
    /\ num_products \in 0..MaxCount

\* randomize_product_rotations(PRODUCT_DATA, num_products), lines 220-237
RandomizeProductRotations ==
    /\ pc = "start"
    /\ \E sel \in Sample(DOMAIN PRODUCT_DATA, num_products) :
          \E r \in {randomize_product_rotations(PRODUCT_DATA, sel)} :
              /\ randomized' = r.randomized_data
              /\ PRODUCT_DATA' = r.product_data_dict
    /\ pc' = "returned"
    /\ UNCHANGED <<flagVars, sceneVars, histVars, ret, result, num_products,
                   remaining, outcome, success_count, reported>>

NextVary == RandomizeProductRotations

SpecVary == InitVary /\ [][NextVary]_vars

----------------------------------------------------------------------------
(* Properties *)

RunEnded == pc \in {"done", "failed"}
Catalogued == DOMAIN PRODUCT_DATA
NodeOf(pid) == ProductPath(pid, PRODUCT_DATA[pid])
RotationFamily == {OpRotateZYX, OpOrient}
HasRotation(e) == "rotate" \in DOMAIN e \/ "orient" \in DOMAIN e
NoDuplicates(seq) == Cardinality(Range(seq)) = Len(seq)

\* an entry with every required field and values the Gf constructors accept
WellFormed(e) ==
    /\ {"asset", "translate", "scale"} \subseteq DOMAIN e
    /\ e.translate \in {"vec3", "rnd"}
    /\ e.scale \in {"vec3", "rnd"}
    /\ "rotate" \in DOMAIN e => e.rotate \in {"vec3", "rnd"}
    /\ ("rotate" \notin DOMAIN e /\ "orient" \in DOMAIN e) => e.orient = "quat"

\* the op order one placement of entry e leaves on a prim that had no ops
\* (e has an asset)
OrderOfOnePlacement(e) ==
    LET rot == IF "rotate" \in DOMAIN e THEN OpRotateZYX ELSE OpOrient
    IN IF "translate" \notin DOMAIN e THEN <<OpTranslate>>
       ELSE IF "scale" \notin DOMAIN e THEN <<OpTranslate, OpScale>>
       ELSE IF ~HasRotation(e) THEN <<OpTranslate, OpScale>>
       ELSE IF WellFormed(e) THEN <<OpTranslate, rot, OpScale>>
       ELSE <<OpTranslate, OpScale, rot>>

\* C1: Idempotence of the full pipeline.  When a run ends on a scene that an
\* earlier run of the same catalog already populated, the scene is structurally
\* the one the first run left: the same stage, the same prims with the same
\* types, the same reference list on the anchor (exactly one reference in
\* attach-into-current mode), the same payload list on every prim, the same op
\* order on the anchor and the groups; and every product prim the run reached
\* carries, without duplicates, the op order one placement on a fresh prim
\* gives for the entry as this run varied it.
C1_Idempotence ==
    (RunEnded /\ runs >= 1) =>
        /\ stage = once.stage
        /\ primType = once.primType
        /\ references = once.references
        /\ payloads = once.payloads
        /\ \A p \in AllPaths \ ProductPaths : xformOpOrder[p] = once.xformOpOrder[p]
        /\ (use_current_scene /\ stage) => Len(references) = 1
        /\ \A p \in AllPaths : NoDuplicates(xformOpOrder[p]) /\ NoDuplicates(payloads[p])
        /\ \A pid \in Catalogued :
              (outcome[pid] # "pending" /\ "asset" \in DOMAIN randomized[pid]) =>
                  xformOpOrder[NodeOf(pid)] = OrderOfOnePlacement(randomized[pid])

\* a second run has ended in success on a scene that started with a stale
\* product prim, with all identifiers catalogued and one entry left unrotated
C1_Witness ==
    /\ RunEnded /\ runs >= 1 /\ result = "True"
    /\ Cardinality(Catalogued) = NumIds
    /\ payloads[StaleProduct] = <<"old.usd", "product.usd">>
    /\ \E pid \in Catalogued : xformOpOrder[NodeOf(pid)] = <<OpTranslate, OpScale>>

\* C2: Transform op order.  Once place_product has returned for an entry, the
\* op order of the entry's prim is exactly [translate, rotation, scale] when
\* the varied entry has rotate or orient and exactly [translate, scale] when it
\* has neither, whatever the prim carried before.
C2_OpOrder ==
    \A pid \in Catalogued :
        outcome[pid] = "ok" =>
            LET order == xformOpOrder[NodeOf(pid)]
            IN IF HasRotation(randomized[pid])
               THEN /\ Len(order) = 3
                    /\ order[1] = OpTranslate
                    /\ order[2] \in RotationFamily
                    /\ order[3] = OpScale
               ELSE order = <<OpTranslate, OpScale>>

\* in a rerun, the product prim that was stale before the first run (it carried
\* [translate, orient, scale]) was placed from an entry without rotation
C2_Witness ==
    /\ runs >= 1
    /\ "p1" \in Catalogued
    /\ outcome["p1"] = "ok"
    /\ ~HasRotation(randomized["p1"])
    /\ "old.usd" \in Range(atStart.payloads[StaleProduct])

\* C3: PlacedEntity invariant, as claimed.  After a run, every product prim the
\* run reached (also one whose placement raised) has translate and scale in its
\* op order, and has exactly one rotation-family op iff its (varied) entry
\* specifies a rotation.
C3_PlacedEntityInvariant ==
    RunEnded =>
        \A pid \in Catalogued :
            (outcome[pid] # "pending" /\ IsValidPrim(primType, NodeOf(pid))) =>
                LET order == xformOpOrder[NodeOf(pid)]
                    rots == {i \in 1..Len(order) : order[i] \in RotationFamily}
                IN /\ OpTranslate \in Range(order)
                   /\ OpScale \in Range(order)
                   /\ (Cardinality(rots) = 1) <=> HasRotation(randomized[pid])

\* C4: Hierarchy completeness, as claimed.  Once create_product_hierarchy has
\* returned success, the groups of every catalog entry exist and no prim
\* stands at anchor/shelf/category for a pair the catalog does not have.
C4_NoForeignGroups ==
    ret.hierarchy = "True" =>
        /\ \A g \in GroupPathsOf(PRODUCT_DATA) : IsValidPrim(primType, g)
        /\ \A g \in GroupPaths :
              (Len(g) = 2 /\ IsValidPrim(primType, g)) =>
                  <<g[1], g[2]>> \in shelf_categories(PRODUCT_DATA)

\* C4, amended.  The step in which create_product_hierarchy returns success
\* leaves a group prim at anchor/shelf and anchor/shelf/category (defaults
\* applied) of every catalog entry, creates no prim but those, and removes none.
C4_Hierarchy ==
    [][(pc = "hierarchy" /\ pc' = "vary") =>
          /\ \A pid \in Catalogued :
                /\ IsValidPrim(primType', <<ShelfOf(PRODUCT_DATA[pid])>>)
                /\ IsValidPrim(primType', <<ShelfOf(PRODUCT_DATA[pid]),
                                            CategoryOf(PRODUCT_DATA[pid])>>)
          /\ \A p \in AllPaths :
                /\ IsValidPrim(primType, p) => IsValidPrim(primType', p)
                /\ (~IsValidPrim(primType, p) /\ IsValidPrim(primType', p)) =>
                      \E pid \in Catalogued :
                          p \in {<<ShelfOf(PRODUCT_DATA[pid])>>,
                                 <<ShelfOf(PRODUCT_DATA[pid]),
                                   CategoryOf(PRODUCT_DATA[pid])>>}]_vars

\* the hierarchy was built for a catalog without the pair (Items_Lower, Snacks)
\* on a scene that had no Items_Upper groups but has a prim for that pair
C4_Witness ==
    /\ pc = "vary"
    /\ "p3" \in Catalogued
    /\ ~IsValidPrim(atStart.primType, <<"Items_Upper", "Snacks">>)
    /\ IsValidPrim(primType, <<"Items_Upper", "Snacks">>)
    /\ IsValidPrim(primType, <<DefaultShelf, "Snacks">>)

\* C5: Variation count.  randomize_product_rotations(entries, count) returns a
\* mapping with the keys of entries in which exactly min(count, |entries|)
\* entries carry a sampled rotate, have no orient and agree with the input on
\* every other field, and every other entry equals its input.
C5_VariationCount ==
    pc = "returned" =>
        LET varied == {pid \in DOMAIN randomized :
                          /\ "rotate" \in DOMAIN randomized[pid]
                          /\ randomized[pid].rotate = "rnd"}
        IN /\ DOMAIN randomized = DOMAIN PRODUCT_DATA
           /\ Cardinality(varied) = Min(num_products, Cardinality(DOMAIN PRODUCT_DATA))
           /\ \A pid \in varied :
                 /\ "orient" \notin DOMAIN randomized[pid]
                 /\ DOMAIN randomized[pid] \ {"rotate"}
                       = DOMAIN PRODUCT_DATA[pid] \ {"rotate", "orient"}
                 /\ \A k \in DOMAIN randomized[pid] \ {"rotate"} :
                       randomized[pid][k] = PRODUCT_DATA[pid][k]
           /\ \A pid \in DOMAIN randomized \ varied :
                 randomized[pid] = PRODUCT_DATA[pid]

\* fewer entries were asked for than the catalog has, and an entry that had an
\* orient was varied
C5_Witness ==
    /\ pc = "returned"
    /\ num_products > 0
    /\ num_products < Cardinality(DOMAIN PRODUCT_DATA)
    /\ \E pid \in DOMAIN randomized :
          /\ "orient" \in DOMAIN PRODUCT_DATA[pid]
          /\ "orient" \notin DOMAIN randomized[pid]
    /\ \E pid \in DOMAIN randomized : randomized[pid] = PRODUCT_DATA[pid]

\* C6: Single base reference.  In attach-into-current mode with an active
\* scene, once add_shelf_to_existing_stage has returned in a run (the first or
\* a later one), the anchor exists and its reference list is exactly the one
\* reference to the base fixture's /World/Shelf.
C6_SingleReference ==
    (use_current_scene /\ stage /\ ret.attach # "notrun") =>
        /\ IsValidPrim(primType, Anchor)
        /\ references = <<BaseRef>>

\* the attach ran on an anchor that held two stale references
C6_Witness ==
    /\ use_current_scene /\ stage /\ ret.attach = "True"
    /\ Len(atStart.references) = 2
    /\ BaseRef \notin Range(atStart.references)

\* C7: World transform override, as claimed.  With apply-world-transform on,
\* once the step has returned success the anchor's op order is exactly
\* [translate, rotate] and its reset flag is true iff the mode is "override".
C7_WorldTransform ==
    (APPLY_SHELF_WORLD_XFORM /\ ret.attach = "True") =>
        /\ RemoveItem(xformOpOrder[Anchor], ResetXformStackToken)
              = <<OpTranslate, OpRotateZYX>>
        /\ GetResetXformStack(xformOpOrder[Anchor])
              <=> (Lower(SHELF_WORLD_XFORM_MODE) = "override")

\* C8: Aggregate result.  When place_all_products has returned, it returned
\* success iff at least one placement completed without raising; the count it
\* reports is the number of such entries out of the number of catalog entries;
\* the pipeline's result is that of place_all_products, so an empty catalog and
\* a catalog whose placements all raise end in failure.
C8_Aggregate ==
    ret.place # "notrun" =>
        LET placed == {pid \in Catalogued : outcome[pid] = "ok"}
        IN /\ reported = <<Cardinality(placed), Cardinality(Catalogued)>>
           /\ (ret.place = "True") <=> (placed # {})
           /\ result = ret.place
           /\ (pc = "done") <=> (placed # {})
           /\ (pc = "failed") <=> (placed = {})
           /\ \A pid \in Catalogued : (outcome[pid] = "ok") <=> WellFormed(randomized[pid])

\* every placement of a catalog of three or more entries raised
C8_Witness ==
    /\ ret.place = "False"
    /\ Cardinality(Catalogued) >= 3
    /\ \A pid \in Catalogued : outcome[pid] = "raised"

\* C9: Per-entity failure isolation.  During the placement loop the entries not
\* yet attempted are exactly the ones still to come, whatever raised before;
\* when the loop has ended every entry was attempted, and every well-formed
\* entry is placed (asset in the payload list, op order of a placement on its
\* own) although other entries raised.
C9_Isolation ==
    /\ pc = "place" => remaining = {pid \in Catalogued : outcome[pid] = "pending"}
    /\ ret.place # "notrun" =>
          \A pid \in Catalogued :
              /\ outcome[pid] # "pending"
              /\ WellFormed(randomized[pid]) =>
                    /\ outcome[pid] = "ok"
                    /\ xformOpOrder[NodeOf(pid)] = OrderOfOnePlacement(randomized[pid])
                    /\ randomized[pid].asset \in Range(payloads[NodeOf(pid)])

\* the loop ended with a raised placement and a successful one
C9_Witness ==
    /\ ret.place = "True"
    /\ \E pid \in Catalogued : outcome[pid] = "raised"
    /\ \E pid \in Catalogued :
          outcome[pid] = "ok" /\ xformOpOrder[NodeOf(pid)] = <<OpTranslate, OpRotateZYX, OpScale>>

\* the scene open_stage leaves when it succeeds, before the world transform
LoadedFixture ==
    [stage |-> TRUE, primType |-> FixtureTypes(fixture), references |-> <<>>,
     xformOpOrder |-> FixtureOrder(fixture), payloads |-> NoPayloads]

C10_State ==
    /\ ret.attach = "False" => ret.hierarchy = "notrun"
    /\ (ret.attach = "False" \/ ret.hierarchy = "False") =>
          /\ ret.place = "notrun"
          /\ \A pid \in Catalogued : outcome[pid] = "pending"
          /\ pc = "failed"
          /\ result = "False"
          /\ \/ Structure(Scene) = atStart
             \/ ~use_current_scene /\ canOpen /\ Scene = LoadedFixture

C10_Step ==
    (pc' = "failed" /\ pc \in {"start", "hierarchy"}) =>
        \/ Scene' = Scene
        \/ ~use_current_scene /\ canOpen /\ Scene' = LoadedFixture

\* C10: Stage failure short-circuits.  In a run whose attach stage returned
\* failure, hierarchy building and placement were not executed; in a run whose
\* hierarchy building returned failure, no placement was executed; the run is
\* in Failed with result False; the failing stage leaves the scene as it was,
\* or as open_stage loaded it, and the scene is then what the run found or
\* what open_stage loaded: nothing is undone.
C10_ShortCircuit == []C10_State /\ [][C10_Step]_vars

\* the world-transform step failed after open_stage replaced the scene
C10_Witness ==
    /\ ret.attach = "False"
    /\ ~use_current_scene /\ canOpen
    /\ APPLY_SHELF_WORLD_XFORM
    /\ Structure(Scene) # atStart

\* C11: Variation never mutates its input.  No step of a run, the call of
\* randomize_product_rotations included, changes the catalog mapping or any
\* record in it as the caller reads them, so every later run starts from the
\* catalog that was loaded.
C11_InputNotMutated == [][PRODUCT_DATA' = PRODUCT_DATA]_vars

\* in a rerun, the variation has replaced the rotate of an entry that had one
\* and dropped the orient of an entry that had one, and the catalog still has
\* both
C11_Witness ==
    /\ runs >= 1
    /\ pc = "place"
    /\ \E pid \in Catalogued :
          /\ "rotate" \in DOMAIN PRODUCT_DATA[pid]
          /\ PRODUCT_DATA[pid].rotate = "vec3"
          /\ randomized[pid].rotate = "rnd"
    /\ \E pid \in Catalogued :
          /\ "orient" \in DOMAIN PRODUCT_DATA[pid]
          /\ "orient" \notin DOMAIN randomized[pid]

\* the rotation-family ops in an op order, in order
RotationOps(order) == SelectSeq(order, LAMBDA op : op \in RotationFamily)

\* C12: Rotation precedence.  Once place_product has returned for an entry,
\* the entry's prim has exactly one rotation-family op when the (varied) entry
\* has rotate or orient: the Euler op when it has rotate, whatever its orient
\* is, and the orient op when it has orient alone; and no product prim ever has
\* both the Euler op and the orient op in its op order.
C12_RotationPrecedence ==
    /\ \A pid \in Catalogued :
          outcome[pid] = "ok" =>
              LET e == randomized[pid]
                  rots == RotationOps(xformOpOrder[NodeOf(pid)])
              IN /\ "rotate" \in DOMAIN e => rots = <<OpRotateZYX>>
                 /\ ("rotate" \notin DOMAIN e /\ "orient" \in DOMAIN e) => rots = <<OpOrient>>
                 /\ ~HasRotation(e) => rots = <<>>
    /\ \A p \in ProductPaths :
          ~(OpRotateZYX \in Range(xformOpOrder[p]) /\ OpOrient \in Range(xformOpOrder[p]))

\* a placement returned for an entry that the variation left with its rotate
\* and a malformed orient, and the prim has the Euler op
C12_Witness ==
    \E pid \in Catalogued :
        /\ outcome[pid] = "ok"
        /\ {"rotate", "orient"} \subseteq DOMAIN randomized[pid]
        /\ randomized[pid].orient = "bad"
        /\ xformOpOrder[NodeOf(pid)] = <<OpTranslate, OpRotateZYX, OpScale>>

\* C13, in every state: a run that opened a base fixture without /World/Shelf
\* and has ended reports failure and the scene has no group or product prim
C13_State ==
    (~use_current_scene /\ canOpen /\ fixture = "noShelf" /\ ret.attach # "notrun") =>
        /\ RunEnded => result = "False"
        /\ pc \notin {"vary", "place", "done"}
        /\ \A p \in GroupPaths \cup ProductPaths : primType[p] = NoPrim

\* C13, in every step: create_product_hierarchy called without the anchor
\* returns failure, ends the run and leaves the scene as it is
C13_Step ==
    (pc = "hierarchy" /\ primType[Anchor] = NoPrim /\ pc' # pc) =>
        /\ ret'.hierarchy = "False"
        /\ pc' = "failed"
        /\ result' = "False"
        /\ Scene' = Scene

\* C13: AnchorMissing in the hierarchy builder.  When /World/Shelf does not
\* exist at the call of create_product_hierarchy, the call returns failure,
\* creates no group prim and leaves the scene unchanged; in open-new-scene mode
\* with a base fixture that defines no /World/Shelf the run reports failure and
\* no group or product prim is ever created.
C13_AnchorMissing == []C13_State /\ [][C13_Step]_vars

\* the hierarchy builder failed on the scene opened from a fixture without the
\* anchor, for a catalog with entries, after the attach stage had succeeded
C13_Witness ==
    /\ ~use_current_scene /\ canOpen /\ fixture = "noShelf"
    /\ ret.attach = "True"
    /\ ret.hierarchy = "False"
    /\ Cardinality(Catalogued) >= 2

\* C14: Group nodes are reused, as claimed.  The step in which
\* create_product_hierarchy returns success keeps every prim the scene already
\* had at anchor/shelf or anchor/shelf/category as it was (its type included),
\* keeps the product prims under it, and changes no op order, payload list or
\* reference.
C14_GroupsReused ==
    [][(pc = "hierarchy" /\ pc' = "vary") =>
          /\ \A g \in GroupPaths : IsValidPrim(primType, g) => primType'[g] = primType[g]
          /\ \A p \in ProductPaths \cup {Anchor} : primType'[p] = primType[p]
          /\ xformOpOrder' = xformOpOrder
          /\ payloads' = payloads
          /\ references' = references]_vars

\* position of an identifier in IdNames
IdIndex(pid) == CHOOSE i \in 1..Len(IdNames) : IdNames[i] = pid

\* C15, in every state of the placement loop: for any two entries still to be
\* placed, placing a and then b gives the same scene and the same tally as
\* placing b and then a, and each of the two returns or raises as it does
\* when it is placed first
C15_State ==
    pc = "place" =>
        \A first \in {[pid \in remaining |->
                         place_product(pid, randomized[pid], primType, payloads,
                                       xformOpOrder)]} :
            \A a, b \in remaining : IdIndex(a) < IdIndex(b) =>
                \A rab \in {place_product(b, randomized[b], first[a].primType,
                                          first[a].payloads, first[a].xformOpOrder)} :
                \A rba \in {place_product(a, randomized[a], first[b].primType,
                                          first[b].payloads, first[b].xformOpOrder)} :
                    /\ rab.primType = rba.primType
                    /\ rab.payloads = rba.payloads
                    /\ rab.xformOpOrder = rba.xformOpOrder
                    /\ rab.raised = first[b].raised
                    /\ rba.raised = first[a].raised
                    /\ Tally(Tally(success_count, first[a].raised), rab.raised)
                          = Tally(Tally(success_count, first[b].raised), rba.raised)

\* C15, in every step of the placement loop: the placement of an entry writes
\* the prim at its own path only, leaves the outcome of every other entry, and
\* adds one to the tally exactly when it returned
C15_Step ==
    (pc = "place" /\ remaining' # remaining) =>
        \E pid \in remaining :
            LET own == ProductPath(pid, randomized[pid])
            IN /\ remaining' = remaining \ {pid}
               /\ \A p \in AllPaths \ {own} :
                     /\ primType'[p] = primType[p]
                     /\ payloads'[p] = payloads[p]
                     /\ xformOpOrder'[p] = xformOpOrder[p]
               /\ references' = references
               /\ stage' = stage
               /\ \A q \in Catalogued \ {pid} : outcome'[q] = outcome[q]
               /\ success_count' = success_count + (IF outcome'[pid] = "ok" THEN 1 ELSE 0)

\* C15: Placement is order-insensitive.  For the varied catalog of a run, each
\* placement writes only the prim at its own path (no other product prim, no
\* group, not the anchor), and placing any two remaining entries in either
\* order gives the same scene and the same tally, so the scene and the tally
\* after the stage do not depend on the order of the entries.
C15_OrderInsensitive == []C15_State /\ [][C15_Step]_vars

\* on a scene that had a product prim with ops and a payload, the loop has
\* placed two entries, one raised, and two entries that share a group are
\* still to come
C15_Witness ==
    /\ pc = "place"
    /\ "old.usd" \in Range(payloads[StaleProduct])
    /\ remaining = {"p3", "p4"}
    /\ success_count = 1
    /\ outcome["p1"] # outcome["p2"]

\* C16, in every state of the placement loop: the hierarchy builder has
\* returned success, every varied entry has the shelf and category (defaults
\* applied) of its catalog entry, and the group prims of both exist
C16_State ==
    pc = "place" =>
        /\ ret.hierarchy = "True"
        /\ \A pid \in Catalogued :
              /\ ShelfOf(randomized[pid]) = ShelfOf(PRODUCT_DATA[pid])
              /\ CategoryOf(randomized[pid]) = CategoryOf(PRODUCT_DATA[pid])
              /\ primType[<<ShelfOf(randomized[pid])>>] # NoPrim
              /\ primType[<<ShelfOf(randomized[pid]), CategoryOf(randomized[pid])>>] # NoPrim

\* C16, in every step: the variation and the placements create no group prim
\* and retype none
C16_Step ==
    pc \in {"vary", "place"} =>
        \A g \in GroupPaths \cup {Anchor} : primType'[g] = primType[g]

\* C16: Groups exist before placement.  Whenever place_product is called for
\* an entry, the prims anchor/shelf and anchor/shelf/category of the entry's
\* (defaulted) shelf and category exist, made or found by the hierarchy builder
\* of the same run; the variation leaves shelf and category of every entry as
\* the catalog has them; no placement creates a group prim.
C16_GroupsBeforePlacement == []C16_State /\ [][C16_Step]_vars

\* the first placement of the first run is about to happen on a scene that had
\* no prim at all, and among the entries the variation selected one has an
\* explicit shelf and category
C16_Witness ==
    /\ pc = "place"
    /\ runs = 0
    /\ atStart.primType = NoPrims
    /\ remaining = Catalogued
    /\ "p3" \in Catalogued
    /\ randomized["p3"].rotate = "rnd"
    /\ primType[<<"Items_Upper", "Snacks">>] = "Scope"

\* the stages in pipeline order
StageRank(position) ==
    CASE position = "start" -> 0
      [] position = "hierarchy" -> 1
      [] position = "vary" -> 2
      [] position = "place" -> 3
      [] position \in {"done", "failed"} -> 4

\* C17, in every state: a stage has run only after the stages before it
\* returned success, and the run has a result exactly when it has ended, True
\* in Done and False in Failed
C17_State ==
    /\ ret.hierarchy # "notrun" => ret.attach = "True"
    /\ ret.place # "notrun" => ret.hierarchy = "True"
    /\ StageRank(pc) >= 1 => ret.attach # "notrun"
    /\ StageRank(pc) \in {2, 3} => (ret.hierarchy = "True" /\ ret.place = "notrun")
    /\ pc = "done" => (result = "True" /\ ret.place = "True")
    /\ pc = "failed" => result = "False"
    /\ ~RunEnded => result = "running"

\* C17, in every step: the run moves forward only, a stage that has returned
\* is not run again, the varied catalog is made once, and the attach stage is
\* the one of the two attach operations that use_current_scene selects
C17_Step ==
    /\ StageRank(pc') >= StageRank(pc)
    /\ (pc' # pc) => StageRank(pc') > StageRank(pc)
    /\ RunEnded => UNCHANGED vars
    /\ \A st \in {"attach", "hierarchy", "place"} :
          ret[st] # "notrun" => ret'[st] = ret[st]
    /\ pc # "vary" => randomized' = randomized
    /\ pc = "start" =>
          /\ IF use_current_scene THEN AddShelfToExistingStage ELSE LoadEmptyShopSync
          /\ ret'.attach # "notrun"
    /\ pc = "hierarchy" => ret'.hierarchy # "notrun"
    /\ pc = "vary" => pc' = "place"
    /\ pc = "place" => (pc' = "place" /\ remaining' # remaining /\ remaining' \subseteq remaining)
                       \/ (remaining = {} /\ RunEnded')

\* C17: Linear pipeline that always terminates.  A run of setup_scene_sync
\* goes through attach base, build hierarchy, vary entries and place each
\* entity in this order, each at most once and never back, with exactly one of
\* the two attach operations, and it always ends in Done or Failed.
C17_LinearTerminates == []C17_State /\ [][C17_Step]_vars /\ <>[]RunEnded

\* a run has gone through every stage and ended in Failed after a placement
\* loop over the largest catalog in which placements raised
C17_Witness ==
    /\ pc = "failed"
    /\ ret = [attach |-> "True", hierarchy |-> "True", place |-> "False"]
    /\ Cardinality(Catalogued) = NumIds
    /\ remaining = {}

\* C18: Implicit, attach-into-current mode with an active scene.  The attach
\* stage (with the world-transform step, enabled or not, in either mode) and
\* the hierarchy stage never return failure, the anchor exists once the attach
\* stage has returned, and a run that reports failure is one in which
\* place_all_products returned failure because no entry was placed.
C18_AttachNeverMissesAnchor ==
    (use_current_scene /\ stage) =>
        /\ ret.attach # "False"
        /\ ret.hierarchy # "False"
        /\ ret.attach = "True" => primType[Anchor] # NoPrim
        /\ (result = "False" \/ pc = "failed") =>
              /\ ret.place = "False"
              /\ \A pid \in Catalogued : outcome[pid] = "raised"

\* in attach-into-current mode a run on a scene that had no anchor, with the
\* world transform in override mode, got through attach and hierarchy and
\* failed in the placement of a catalog with entries
C18_Witness ==
    /\ use_current_scene /\ stage
    /\ atStart.primType[Anchor] = NoPrim
    /\ APPLY_SHELF_WORLD_XFORM /\ Lower(SHELF_WORLD_XFORM_MODE) = "override"
    /\ ret = [attach |-> "True", hierarchy |-> "True", place |-> "False"]
    /\ pc = "failed"
    /\ Cardinality(Catalogued) >= 2

====
